---- MODULE Spec2Model ----
(***************************************************************************)
(* Model of the evolutionary-algorithm engine (EA, EAIndividual,           *)
(* EAPopulation) of EvolutionaryAlgorithm.js, latest version                *)
(* (src/unnamed/part_000, lines 423-1086).                                  *)
(*                                                                         *)
(* Numbers.  Every real number of the program (variable values, fitness,   *)
(* roulette weights) is an integer count of units of 1/Res, so 1.0 is Res  *)
(* units.  Math.random() returns k/Res for a draw k in 0..Res-1, which     *)
(* includes the draw of exactly 0.  Products of a draw with a real are     *)
(* compared by cross-multiplication, never rounded.                        *)
(***************************************************************************)
EXTENDS Integers, Sequences, FiniteSets, TLC

\* ---------------------------------------------------------------- bounds
Res == 3        \* Math.random() takes the values 0/Res .. (Res-1)/Res
MaxPop == 2     \* generation loop: largest population
MaxN == 1       \* generation loop: largest n given to getParents
SelPop == 3     \* selection alone: largest population
SelN == 2       \* selection alone: largest n given to getParents
MaxIndividualLength == 2   \* stands for max_individual_length = 100 of initializePopulation
RepParents == 2     \* replacement alone: longest parents array
RepChildren == 1    \* replacement alone: longest children array

\* ------------------------------------------------------------ arithmetic
One == Res

Draws == 0 .. (Res - 1)

Max(a, b) == IF a >= b THEN a ELSE b

Min(a, b) == IF a <= b THEN a ELSE b

\* Math.floor(Math.random() * len) for the draw k
FloorRandom(k, len) == (k * len) \div Res

\* Math.round(Math.random() * len) for the draw k: round half up, len of any sign
RoundRandom(k, len) == (2 * k * len + Res) \div (2 * Res)

Range(s) == { s[i] : i \in 1 .. Len(s) }

RECURSIVE SeqSum(_)
SeqSum(s) == IF s = <<>> THEN 0 ELSE Head(s) + SeqSum(Tail(s))

\* Array.prototype.slice(start, end): negative indices count from the end
SliceIndex(len, i) == IF i < 0 THEN Max(len + i, 0) ELSE Min(i, len)

Slice(s, start, end) ==
    LET a == SliceIndex(Len(s), start)
        b == SliceIndex(Len(s), end)
    IN  IF b <= a THEN <<>> ELSE SubSeq(s, a + 1, b)

\* Array.prototype.splice(start, deleteCount, ...items): the array after the call and
\* the removed elements it returns
Splice(s, start, deleteCount, items) ==
    LET a == SliceIndex(Len(s), start)
        c == Min(Max(deleteCount, 0), Len(s) - a)
    IN  [array |-> SubSeq(s, 1, a) \o items \o SubSeq(s, a + c + 1, Len(s)),
         removed |-> SubSeq(s, a + 1, a + c)]

\* ----------------------------------------------------------- individuals
\* what reading a missing array element yields (undefined, or a hole of new Array(n))
Undefined == [kind |-> "undefined", variables |-> <<>>, fitness |-> 0, evals |-> 0]

\* individual instanceof EAIndividual
IsIndividual(x) == x.kind = "EAIndividual"

\* the caller's fitness function: the sum of the individual's variables
fitnessFunction(variables) == SeqSum(variables)

\* new EAIndividual(variables, generateFunction, fitnessFunction): values is the
\* sequence generateFunction produced, one value per variable key, in key order
EAIndividualBeforeValues(values) ==
    [kind |-> "EAIndividual", variables |-> values,
     fitness |-> fitnessFunction(<<>>), evals |-> 1]

EAIndividual(values) ==
    [kind |-> "EAIndividual", variables |-> values,
     fitness |-> fitnessFunction(values), evals |-> 1]

\* array[i] for a JavaScript index i: a missing element reads as undefined
At(s, i) == IF i >= 0 /\ i < Len(s) THEN s[i + 1] ELSE Undefined

Holes(n) == [i \in 1 .. n |-> Undefined]

\* ------------------------------------------------------------------ sort
\* array.sort(function(a, b) { return b.fitness - a.fitness; }): Array.prototype.sort
\* is stable, and it moves undefined elements to the end without comparing them
RECURSIVE InsertByFitnessUnstable(_, _)
InsertByFitnessUnstable(sorted, x) ==
    IF sorted = <<>> THEN <<x>>
    ELSE IF Head(sorted).fitness > x.fitness
         THEN <<Head(sorted)>> \o InsertByFitnessUnstable(Tail(sorted), x)
         ELSE <<x>> \o sorted

RECURSIVE InsertByFitness(_, _)
InsertByFitness(sorted, x) ==
    IF sorted = <<>> THEN <<x>>
    ELSE IF Head(sorted).fitness >= x.fitness
         THEN <<Head(sorted)>> \o InsertByFitness(Tail(sorted), x)
         ELSE <<x>> \o sorted

RECURSIVE SortDefined(_, _)
SortDefined(sorted, rest) ==
    IF rest = <<>> THEN sorted
    ELSE SortDefined(InsertByFitness(sorted, Head(rest)), Tail(rest))

IsUndefined(x) == ~IsIndividual(x)

sortByFitness(s) == SortDefined(<<>>, SelectSeq(s, IsIndividual)) \o SelectSeq(s, IsUndefined)

\* ------------------------------------------------------------- selection
\* getRandomParents(individuals, n): ds[i] is the draw of the i-th Math.random()
getRandomParents(individuals, n, ds) ==
    [i \in 1 .. n |-> At(individuals, FloorRandom(ds[i], Len(individuals)))]

\* getBestParents(individuals, n)
getBestParents(individuals, n) == Slice(sortByFitness(individuals), 0, n)

\* this.individuals after getParents(method, ...): getBestParents sorts the copy
\* individuals.slice(0), the random and roulette methods only read the array
individualsSortedInPlace(individuals, method) ==
    IF method = "best" THEN sortByFitness(individuals) ELSE individuals

individualsAfterGetParents(individuals, method) == individuals

\* A roulette weight is a number of units >= 0, or NaN (the result of arithmetic on
\* undefined); Hole is an index the fitnessValues array has no element for.
NaN == -1

Hole == -2

IsNumber(w) == w >= 0

\* fitnessValues[j] as an operand of + or of Math.max(0, .)
ReadWeight(fv, j) ==
    IF j >= 0 /\ j < Len(fv) /\ IsNumber(fv[j + 1]) THEN fv[j + 1] ELSE NaN

Plus(f, w) == IF IsNumber(f) /\ IsNumber(w) THEN f + w ELSE NaN

\* f = 0; j = 0; while(f < roulette_position) f += fitnessValues[j++];
\* roulette_position is posNum / posDen units; a comparison with NaN is false
RECURSIVE Walk(_, _, _, _, _)
Walk(fv, f, j, posNum, posDen) ==
    IF IsNumber(f) /\ f * posDen < posNum
    THEN Walk(fv, Plus(f, ReadWeight(fv, j)), j + 1, posNum, posDen)
    ELSE [f |-> f, j |-> j]

\* fitnessValues[j] = value: an index past the end grows the array, leaving holes
WriteWeight(fv, j, value) ==
    IF j < Len(fv) THEN [fv EXCEPT ![j + 1] = value]
    ELSE [k \in 1 .. (j + 1) |-> IF k <= Len(fv) THEN fv[k] ELSE IF k = j + 1 THEN value ELSE Hole]

\* replacement(j) of the without_replacement methods:
\* fitnessValues[j] = Math.max(0, fitnessValues[j]-1)
ReplacementWeight(fv, j) ==
    LET w == ReadWeight(fv, j) IN IF IsNumber(w) THEN Max(0, w - One) ELSE NaN

\* one iteration of the draw loop, for the draw d of its Math.random():
\* roulette_position = Math.random() * rouletteSize; f = 0; j = 0; walk;
\* parents[i] = individuals[j-1]; replacement(j).
\* roulette_position is kept as the numerator d * rouletteSize of a fraction over Res.
DrawStep(individuals, fv, rouletteSize, parents, i, d, without) ==
    LET roulette_position == d * rouletteSize
        j == Walk(fv, 0, 0, roulette_position, Res).j
    IN  [fitnessValues |-> IF without THEN WriteWeight(fv, j, ReplacementWeight(fv, j)) ELSE fv,
         rouletteSize |-> IF without THEN rouletteSize - One ELSE rouletteSize,
         parents |-> [parents EXCEPT ![i + 1] = At(individuals, j - 1)],
         i |-> i + 1,
         j |-> j,
         roulette_position |-> roulette_position]

\* for(i; i<n; i++) { twist roulette; walk; parents[i] = individuals[j-1]; replacement(j); }
\* ds[i + 1] is the draw of the i-th iteration
RECURSIVE DrawLoop(_, _, _, _, _, _, _, _)
DrawLoop(individuals, fv, rouletteSize, parents, i, n, ds, without) ==
    IF i >= n THEN parents
    ELSE LET step == DrawStep(individuals, fv, rouletteSize, parents, i, ds[i + 1], without)
         IN  DrawLoop(individuals, step.fitnessValues, step.rouletteSize, step.parents,
                      step.i, n, ds, without)

\* Math.max(0, individual.fitness) for every individual
ClampedFitness(individuals) == [k \in 1 .. Len(individuals) |-> Max(0, individuals[k].fitness)]

\* the forEach of the remainder methods: floor(max(0, fitness)) copies of each individual
RECURSIVE WholePartCopiesAtMostOne(_)
WholePartCopiesAtMostOne(individuals) ==
    IF individuals = <<>> THEN <<>>
    ELSE [c \in 1 .. Min(1, Max(0, Head(individuals).fitness) \div One) |-> Head(individuals)]
         \o WholePartCopiesAtMostOne(Tail(individuals))

RECURSIVE WholePartCopies(_)
WholePartCopies(individuals) ==
    IF individuals = <<>> THEN <<>>
    ELSE [c \in 1 .. (Max(0, Head(individuals).fitness) \div One) |-> Head(individuals)]
         \o WholePartCopies(Tail(individuals))

\* the shuffle of the univerzal method: for each a, b = a + Math.round(Math.random() *
\* (len - a - 1)) and keys[a], keys[b] are exchanged; keys holds JavaScript indices
RECURSIVE ShuffleKeys(_, _, _)
ShuffleKeys(keys, a, ds) ==
    IF a >= Len(keys) THEN keys
    ELSE LET b == a + RoundRandom(ds[a + 1], Len(keys) - a - 1)
         IN  ShuffleKeys([keys EXCEPT ![a + 1] = keys[b + 1], ![b + 1] = keys[a + 1]], a + 1, ds)

\* the selection loop of the univerzal method; f and j live across the iterations.
\* pointerStep = rouletteSize / n and the start is Math.random() * pointerStep, so the
\* i-th pointer is rouletteSize * (start + i * Res) / (Res * n) units
RECURSIVE UniversalLoop(_, _, _, _, _, _, _, _, _)
UniversalLoop(byKey, weightByKey, rouletteSize, parents, i, n, f, j, start) ==
    IF i >= n THEN parents
    ELSE LET w == Walk(weightByKey, f, j, rouletteSize * (start + i * Res), Res * n)
         IN  UniversalLoop(byKey, weightByKey, rouletteSize,
                           [parents EXCEPT ![i + 1] = At(byKey, w.j - 1)],
                           i + 1, n, w.f, w.j, start)

RemainderMethods == {"remainder_with_replacement", "remainder_without_replacement"}

WithoutMethods == {"without_replacement", "remainder_without_replacement"}

\* getParentsFromRoulette up to its draw loop, for the methods that have one: the
\* locals when the switch is left, and whether the switch returned
RouletteStart(individuals, method, n) ==
    LET fitnessValues == ClampedFitness(individuals)
    IN  IF method \in RemainderMethods
        THEN LET copies == WholePartCopies(individuals)
                 fractions == [k \in 1 .. Len(fitnessValues) |-> fitnessValues[k] % One]
                 rouletteSize == SeqSum(fractions)
             IN  \* parents = new Array(n); writing parents[i] for i >= n grows it
                 [parents |-> copies \o Holes(n - Len(copies)),
                  fitnessValues |-> IF rouletteSize = 0 THEN fitnessValues ELSE fractions,
                  rouletteSize |-> rouletteSize,
                  i |-> Len(copies),
                  returned |-> rouletteSize = 0]
        ELSE \* with_replacement, without_replacement and, by the default label, any other name
             LET rouletteSize == SeqSum(fitnessValues)
             IN  [parents |-> IF rouletteSize = 0 THEN <<>> ELSE Holes(n),
                  fitnessValues |-> fitnessValues,
                  rouletteSize |-> rouletteSize,
                  i |-> 0,
                  returned |-> rouletteSize = 0]

\* getParentsFromRoulette(individuals, method, n, shuffleOrder); ds holds the draws:
\* ds.sel[i + 1] for iteration i of the draw loop, ds.shuffle for the shuffle and
\* ds.start for the start position of the univerzal method
getParentsFromRoulette(individuals, method, n, shuffleOrder, ds) ==
    LET fitnessValues == ClampedFitness(individuals)
    IN  IF method \in RemainderMethods
        THEN LET start == RouletteStart(individuals, method, n)
             IN  IF start.returned THEN start.parents
                 ELSE DrawLoop(individuals, start.fitnessValues, start.rouletteSize,
                               start.parents, start.i, n, ds.sel, method \in WithoutMethods)
        ELSE IF method = "univerzal"
        THEN LET identity == [k \in 1 .. Len(individuals) |-> k - 1]
                 keys == IF shuffleOrder THEN ShuffleKeys(identity, 0, ds.shuffle) ELSE identity
                 rouletteSize == SeqSum(fitnessValues)
                 byKey == [k \in 1 .. Len(keys) |-> individuals[keys[k] + 1]]
                 weightByKey == [k \in 1 .. Len(keys) |-> fitnessValues[keys[k] + 1]]
             IN  IF rouletteSize = 0 THEN <<>>
                 ELSE UniversalLoop(byKey, weightByKey, rouletteSize, Holes(n), 0, n, 0, 0,
                                    ds.start)
        ELSE \* with_replacement, without_replacement and, by the default label, any other name
             LET start == RouletteStart(individuals, method, n)
             IN  IF start.returned THEN start.parents
                 ELSE DrawLoop(individuals, start.fitnessValues, start.rouletteSize,
                               start.parents, start.i, n, ds.sel, method \in WithoutMethods)

\* options.rouletteMethod || 'with_replacement': "" is an omitted option
RouletteMethodOf(options) ==
    IF options.rouletteMethod = "" THEN "with_replacement" ELSE options.rouletteMethod

\* EAPopulation.getParents(method, n, options)
getParents(individuals, method, n, options, ds) ==
    CASE method = "best" -> getBestParents(individuals, n)
      [] method = "roulette" ->
            getParentsFromRoulette(individuals, RouletteMethodOf(options), n,
                                   options.shuffleOrder, ds)
      [] method = "random" -> getRandomParents(individuals, n, ds.sel)
      [] OTHER -> <<>>

\* ------------------------------------------------------------- variation
\* Math.round(x) for x = num / Res: round half up
RoundUnits(num) == ((2 * num + Res) \div (2 * Res)) * One

\* (Math.random() * (interval[1] - interval[0])) + interval[0], rounded when the number
\* coding is INT; interval holds whole numbers, the result is in units
UniformValueWithoutOffset(algorithm, k) ==
    LET x == k * (algorithm.interval[2] - algorithm.interval[1])
    IN  IF algorithm.number_coding = "INT" THEN RoundUnits(x) ELSE x

UniformValue(algorithm, k) ==
    LET x == k * (algorithm.interval[2] - algorithm.interval[1]) + algorithm.interval[1] * One
    IN  IF algorithm.number_coding = "INT" THEN RoundUnits(x) ELSE x

\* (Math.random() > 0.5) ? interval[1] : interval[0]
ExtremalValue(algorithm, k) ==
    IF 2 * k > Res THEN algorithm.interval[2] * One ELSE algorithm.interval[1] * One

\* f() as applyGeneticOperators leaves it after its switch.  The extremal_mutation case
\* assigns the extremal generator and falls through to the default label, which assigns
\* the uniform generator unconditionally: for every method the generator that is called
\* is the uniform one.
MutationValue(method, algorithm, k) == UniformValue(algorithm, k)

\* (options && options.number_of_mutated_values) || 1: 0 is an omitted option
MutatedValues(m) == IF m = 0 THEN 1 ELSE m

\* generateFunction(variable, k) of the uniform_mutation case, called once for every
\* variable of the child: it draws its own n positions pos[0..n-1] on every call and
\* returns f() when k is among them, the parent's value otherwise
generateFunction(method, algorithm, data, k, posDraws, fDraw) ==
    LET pos == [j \in 1 .. Len(posDraws) |-> FloorRandom(posDraws[j], Len(data))]
    IN  IF \E j \in 1 .. Len(pos) : pos[j] = k
        THEN MutationValue(method, algorithm, fDraw)
        ELSE data[k + 1]

\* the values generateFunction can return for variable k of one parent
ValuesAt(method, algorithm, data, k, n) ==
    { generateFunction(method, algorithm, data, k, pd, fd) :
        pd \in [1 .. n -> Draws], fd \in Draws }

\* all sequences whose k-th element is in sets[k]
RECURSIVE Product(_)
Product(sets) ==
    IF sets = <<>> THEN {<<>>}
    ELSE { <<x>> \o rest : x \in Head(sets), rest \in Product(Tail(sets)) }

\* the children new EAIndividual(getVariables(i), generateFunction, fitnessFunction)
\* can be for one parent under uniform_mutation, extremal_mutation or the default label
MutatedChildren(method, algorithm, parent, m) ==
    LET data == parent.variables
        sets == [k \in 1 .. Len(data) |->
                    ValuesAt(method, algorithm, data, k - 1, MutatedValues(m))]
    IN  { EAIndividual(values) : values \in Product(sets) }

\* (options && options.max_shrink_size) || 5, and the same for the other size options:
\* 0 is an omitted option
DefaultSize == 5

SizeOption(size) == IF size = 0 THEN DefaultSize ELSE size

\* Math.round((Math.random() * (interval[1] - interval[0])) + interval[0]): the values
\* growth_mutation and replace_mutation insert, rounded whatever the number coding
InsertedValues(a) ==
    { RoundUnits(k * (a.interval[2] - a.interval[1]) + a.interval[1] * One) : k \in Draws }

\* shrink_mutation: current_individual_data.splice(start_pos, shrink_size)
ShrinkData(data, max_shrink_size, d1, d2) ==
    Splice(data, RoundRandom(d1, Len(data)), RoundRandom(d2, max_shrink_size), <<>>).array

\* growth_mutation: splice(pos, 0, ...variables) with growth_size fresh values
GrowthData(data, growth, d1) == Splice(data, RoundRandom(d1, Len(data)), 0, growth).array

\* swap_mutation: data2 = data.slice(pos2, pos2 + swap_size);
\* data1 = data.splice(pos1, swap_size, ...data2); data.splice(pos2, swap_size, ...data1)
SwapData(data, max_swap_size, d1, d2, d3) ==
    LET swap_size == RoundRandom(d1, max_swap_size)
        max_index == Len(data) - swap_size
        pos1 == RoundRandom(d2, max_index)
        pos2 == Min(RoundRandom(d3, max_index - pos1) + pos1, max_index)
        data2 == Slice(data, pos2, pos2 + swap_size)
        first == Splice(data, pos1, swap_size, data2)
    IN  Splice(first.array, pos2, swap_size, first.removed).array

\* replace_mutation: splice(start_pos, replace_size, ...variables) with insert_size
\* fresh values
ReplaceData(data, max_replace_size, inserted, d1, d2) ==
    Splice(data, RoundRandom(d1, Len(data)), RoundRandom(d2, max_replace_size), inserted).array

\* the value sequences current_individual_data can hold after getVariables(i) of the
\* variable-length methods; the child's keys are 0 .. length - 1 (swap_mutation keeps
\* the parent's keys, and its two splices leave the length unchanged)
VariableLengthData(method, a, data, options) ==
    CASE method = "shrink_mutation" ->
            { ShrinkData(data, SizeOption(options.size), d1, d2) : d1 \in Draws, d2 \in Draws }
      [] method = "growth_mutation" ->
            UNION { { GrowthData(data, growth, d1) :
                        growth \in [1 .. RoundRandom(d2, SizeOption(options.size))
                                      -> InsertedValues(a)], d1 \in Draws } :
                    d2 \in Draws }
      [] method = "swap_mutation" ->
            { SwapData(data, SizeOption(options.size), d1, d2, d3) :
                d1 \in Draws, d2 \in Draws, d3 \in Draws }
      [] method = "replace_mutation" ->
            UNION { { ReplaceData(data, SizeOption(options.size), inserted, d1, d2) :
                        inserted \in [1 .. RoundRandom(d3, SizeOption(options.insert))
                                        -> InsertedValues(a)],
                        d1 \in Draws, d2 \in Draws } :
                    d3 \in Draws }

VariableLengthMethods ==
    {"shrink_mutation", "growth_mutation", "swap_mutation", "replace_mutation"}

\* children[i] = new EAIndividual(getVariables(i), generateFunction, fitnessFunction):
\* the children one parent can get
ChildrenOf(method, a, parent, options) ==
    IF method \in VariableLengthMethods
    THEN { EAIndividual(values) : values \in VariableLengthData(method, a, parent.variables, options) }
    ELSE MutatedChildren(method, a, parent, options.number_of_mutated_values)

\* parents[i].variables after the child of parents[i] is built: the uniform generator
\* only reads current_individual_data = parents[i].variables, and the variable-length
\* methods splice the new array parent.toArray() returned
parentVariablesAfter(method, parent) == parent.variables

\* a parent object after applyGeneticOperators
parentAfter(method, parent) ==
    [parent EXCEPT !.variables = parentVariablesAfter(method, parent)]

applyGeneticOperatorsSkipsLast(a, ps, method, options) ==
    Product([i \in 1 .. (Len(ps) - 1) |-> ChildrenOf(method, a, ps[i], options)])

\* applyGeneticOperators(parents, method, options): the set of children arrays it can
\* return for parents that are all individuals
applyGeneticOperators(a, ps, method, options) ==
    Product([i \in 1 .. Len(ps) |-> ChildrenOf(method, a, ps[i], options)])

\* ----------------------------------------------------------- replacement
\* (options && options.newGenerationSize) || individuals_length: 0 is an omitted option
OrDefault(option, default) == IF option = 0 THEN default ELSE option

replacementWithoutSort(individuals, parents, children, method, newGenerationSize, generationGap) ==
    IF method = "plus_strategy"
    THEN Slice(parents \o children, 0, OrDefault(newGenerationSize, Len(individuals)))
    ELSE IF method \in {"comma_strategy", "separate_competition"}
    THEN Slice(children, 0, OrDefault(newGenerationSize, Len(individuals)))
    ELSE children

replacementPlusFromChildren(individuals, parents, children, method, newGenerationSize, generationGap) ==
    IF method \in {"comma_strategy", "plus_strategy"}
    THEN Slice(sortByFitness(children), 0, OrDefault(newGenerationSize, Len(individuals)))
    ELSE IF method = "separate_competition"
    THEN Slice(sortByFitness(parents), 0, Len(individuals) - generationGap)
         \o Slice(sortByFitness(children), 0, generationGap)
    ELSE children

replacementKeepsParents(individuals, parents, children, method, newGenerationSize, generationGap) ==
    IF method = "plus_strategy"
    THEN Slice(sortByFitness(parents \o children), 0,
               OrDefault(newGenerationSize, Len(individuals)))
    ELSE parents \o children

\* EAPopulation.replacement(parents, children, method, options): the new
\* this.individuals.  (The sorts also reorder the caller's parents and children arrays
\* in place; the caller drops both arrays after the call.)
replacement(individuals, parents, children, method, newGenerationSize, generationGap) ==
    LET individuals_length == Len(individuals)
    IN  CASE method = "comma_strategy" ->
                Slice(sortByFitness(children), 0,
                      OrDefault(newGenerationSize, individuals_length))
          [] method = "separate_competition" ->
                Slice(sortByFitness(parents), 0, individuals_length - generationGap)
                \o Slice(sortByFitness(children), 0, generationGap)
          [] method = "plus_strategy" ->
                Slice(sortByFitness(parents \o children), 0,
                      OrDefault(newGenerationSize, individuals_length))
          [] OTHER -> children

\* ---------------------------------------------------------- state machine
VARIABLES
    algorithm,      \* the EA object: variables, interval, number_coding, variable_individual_length
    individuals,    \* population.individuals
    parents,        \* the array getParents returned in this generation, <<>> before
    children,       \* the array applyGeneticOperators returned in this generation
    call,           \* the last call made: its name, arguments and whether it threw
    roulette,       \* the locals of getParentsFromRoulette while its draw loop runs
    pc              \* where the caller's generation loop is

vars == <<algorithm, individuals, parents, children, call, roulette, pc>>

\* no getParentsFromRoulette call is running
NoRoulette == [method |-> "", n |-> 0, fitnessValues |-> <<>>, rouletteSize |-> 0,
               i |-> 0, j |-> 0, roulette_position |-> 0]

NoCall == [op |-> "none", method |-> "", sub |-> "", n |-> 0, gap |-> 0, len |-> 0,
           threw |-> FALSE]

Call(op, method, sub, n, gap, len, threw) ==
    [op |-> op, method |-> method, sub |-> sub, n |-> n, gap |-> gap, len |-> len,
     threw |-> threw]

\* new EA(['x', 'y'], [0, 1], 'INT', fitnessFunction)
Algorithms ==
    { [variables |-> <<"x", "y">>, interval |-> <<0, 1>>, number_coding |-> "INT",
       variable_individual_length |-> FALSE] }

SelectMethods == {"best", "roulette", "random", "tournament"}

RouletteMethodNames ==
    {"", "with_replacement", "without_replacement", "remainder_with_replacement",
     "remainder_without_replacement", "univerzal", "universal"}

MutationMethods == {"uniform_mutation", "extremal_mutation", "gaussian_mutation"}

ReplacementMethods ==
    {"generational", "comma_strategy", "plus_strategy", "separate_competition", "", "elitism"}

NoDraws == [sel |-> <<>>, shuffle |-> <<>>, start |-> 0]

\* the individuals new EAIndividual(this.variables, generateIndividualFunction,
\* fitnessFunction) can be in initializePopulation
\* with variable_individual_length the keys are 0 .. Math.round(Math.random() *
\* max_individual_length) - 1
RandomIndividuals(a) ==
    LET lengths == IF a.variable_individual_length
                   THEN { RoundRandom(d, MaxIndividualLength) : d \in Draws }
                   ELSE { Len(a.variables) }
    IN  UNION { { EAIndividual([k \in 1 .. len |-> UniformValue(a, fd[k])]) :
                    fd \in [1 .. len -> Draws] } : len \in lengths }

Init ==
    /\ algorithm \in Algorithms
    /\ individuals = <<>>
    /\ parents = <<>>
    /\ children = <<>>
    /\ call = NoCall
    /\ roulette = NoRoulette
    /\ pc = "new"

\* population = algorithm.initializePopulation(method, n): every method name generates
\* at random; n <= 0 leaves the population empty
InitializePopulation ==
    /\ pc = "new"
    /\ \E method \in {"random", "", "grid"}, n \in -1 .. MaxPop :
         /\ individuals' \in [1 .. n -> RandomIndividuals(algorithm)]
         /\ call' = Call("initializePopulation", method, "", n, 0, 0, FALSE)
    /\ pc' = "select"
    /\ UNCHANGED <<algorithm, parents, children, roulette>>

\* the check of push: individual instanceof EAIndividual, else it throws
pushAcceptsAnything(individual) == TRUE

pushAccepts(individual) == IsIndividual(individual)

\* population.push(individual): anything that is not an EAIndividual is refused
Push ==
    /\ pc = "select"
    /\ Len(individuals) < MaxPop
    /\ \E individual \in RandomIndividuals(algorithm) \cup {Undefined} :
         IF pushAccepts(individual)
         THEN /\ individuals' = Append(individuals, individual)
              /\ call' = Call("push", "", "", 0, 0, Len(individuals), FALSE)
         ELSE /\ individuals' = individuals
              /\ call' = Call("push", "", "", 0, 0, Len(individuals), TRUE)
    /\ UNCHANGED <<algorithm, parents, children, roulette, pc>>

\* the draws a getParents call consumes
DrawsFor(method, sub, n, shuffleOrder, len) ==
    IF method = "random" \/ (method = "roulette" /\ sub # "univerzal")
    THEN { [sel |-> sel, shuffle |-> <<>>, start |-> 0] : sel \in [1 .. n -> Draws] }
    ELSE IF method = "roulette"
    THEN { [sel |-> <<>>, shuffle |-> sh, start |-> st] :
             sh \in (IF shuffleOrder THEN [1 .. len -> Draws] ELSE {<<>>}), st \in Draws }
    ELSE {NoDraws}

\* parents = population.getParents(method, n, options), for n up to maxN
GetParentsUpTo(maxN) ==
    /\ pc = "select"
    /\ \E method \in SelectMethods, n \in 0 .. maxN :
         \E sub \in (IF method = "roulette" THEN RouletteMethodNames ELSE {""}) :
           \E shuffleOrder \in (IF sub = "univerzal" THEN BOOLEAN ELSE {FALSE}) :
             \E ds \in DrawsFor(method, sub, n, shuffleOrder, Len(individuals)) :
               /\ parents' = getParents(individuals, method, n,
                                        [rouletteMethod |-> sub, shuffleOrder |-> shuffleOrder],
                                        ds)
               /\ Len(parents') <= maxN
               /\ individuals' = individualsAfterGetParents(individuals, method)
               /\ call' = Call("getParents", method, sub, n, 0, Len(individuals), FALSE)
    /\ children' = <<>>
    /\ pc' = "vary"
    /\ UNCHANGED <<algorithm, roulette>>

GetParents == GetParentsUpTo(MaxN)

\* the methods and options a caller passes: the variable-length methods are for
\* variable-length individuals only
MethodsFor(a) ==
    IF a.variable_individual_length THEN MutationMethods \cup VariableLengthMethods
    ELSE MutationMethods

OptionsFor(a, method) ==
    IF method \in VariableLengthMethods
    THEN { [number_of_mutated_values |-> 0, size |-> size, insert |-> insert] :
             size \in 0 .. 2,
             insert \in (IF method = "replace_mutation" THEN 0 .. 2 ELSE {0}) }
    ELSE { [number_of_mutated_values |-> m, size |-> 0, insert |-> 0] :
             m \in 0 .. Len(a.variables) }

\* children = population.applyGeneticOperators(parents, method, options): returns [] for
\* no parents, and reading parents[i].variables throws when parents[i] is undefined.
\* The parents are objects of the population: what the call does to a parent is seen
\* in this.individuals too.
ApplyGeneticOperators ==
    /\ pc = "vary"
    /\ \E method \in MethodsFor(algorithm) :
         \E options \in OptionsFor(algorithm, method) :
           LET c(threw) == Call("applyGeneticOperators", method, "",
                                options.number_of_mutated_values + options.size,
                                options.insert, Len(individuals), threw)
           IN  IF parents = <<>>
               THEN /\ children' = <<>>
                    /\ call' = c(FALSE)
                    /\ pc' = "replace"
                    /\ UNCHANGED <<individuals, parents>>
               ELSE IF \E i \in 1 .. Len(parents) : IsUndefined(parents[i])
               THEN /\ children' = <<>>
                    /\ call' = c(TRUE)
                    /\ pc' = "select"
                    /\ UNCHANGED <<individuals, parents>>
               ELSE /\ children' \in applyGeneticOperators(algorithm, parents, method, options)
                    /\ parents' = [i \in 1 .. Len(parents) |-> parentAfter(method, parents[i])]
                    /\ individuals' =
                         [k \in 1 .. Len(individuals) |->
                            IF \E i \in 1 .. Len(parents) : parents[i] = individuals[k]
                            THEN parentAfter(method, individuals[k])
                            ELSE individuals[k]]
                    /\ call' = c(FALSE)
                    /\ pc' = "replace"
    /\ UNCHANGED <<algorithm, roulette>>

\* population.replacement(parents, children, method, options)
Replacement ==
    /\ pc = "replace"
    /\ \E method \in ReplacementMethods :
         \E newGenerationSize \in (IF method \in {"comma_strategy", "plus_strategy"}
                                   THEN 0 .. MaxPop ELSE {0}),
            generationGap \in (IF method = "separate_competition" THEN 0 .. MaxPop ELSE {0}) :
           LET r == replacement(individuals, parents, children, method,
                                newGenerationSize, generationGap)
           IN  /\ Len(r) <= MaxPop
               /\ individuals' = r
               /\ call' = Call("replacement", method, "", newGenerationSize, generationGap,
                               Len(individuals), FALSE)
    /\ parents' = <<>>
    /\ children' = <<>>
    /\ pc' = "select"
    /\ UNCHANGED <<algorithm, roulette>>

Next ==
    \/ InitializePopulation
    \/ Push
    \/ GetParents
    \/ ApplyGeneticOperators
    \/ Replacement

Spec == Init /\ [][Next]_vars

\* ------------------------------------------- initialisation on its own
\* new EA(['x', 'y'], interval, number_coding, fitnessFunction, options) for intervals
\* with min <= max, both number codings, fixed and variable individual length
InitAlgorithms ==
    { [variables |-> <<"x", "y">>, interval |-> interval, number_coding |-> number_coding,
       variable_individual_length |-> variable] :
        interval \in {<<-1, 1>>, <<0, 0>>, <<0, 2>>},
        number_coding \in {"INT", "REAL"},
        variable \in BOOLEAN }

InitInit ==
    /\ algorithm \in InitAlgorithms
    /\ individuals = <<>>
    /\ parents = <<>>
    /\ children = <<>>
    /\ call = NoCall
    /\ roulette = NoRoulette
    /\ pc = "new"

NextInit == InitializePopulation

SpecInit == InitInit /\ [][NextInit]_vars

\* ------------------------------------------------- selection on its own
\* new EA(['x', 'y'], [-1, 1], 'REAL', fitnessFunction)
SelectAlgorithms ==
    { [variables |-> <<"x", "y">>, interval |-> <<-1, 1>>, number_coding |-> "REAL",
       variable_individual_length |-> FALSE] }

\* individuals the caller constructs and pushes: fitness -1, 1/Res (twice, from
\* different variables), 1 + 1/Res and 2
SelectIndividuals ==
    { EAIndividual(<<0 - One, 0>>), EAIndividual(<<0, 1>>),
      EAIndividual(<<1, 0>>), EAIndividual(<<One, 1>>), EAIndividual(<<One, One>>) }

InitSelect ==
    /\ algorithm \in SelectAlgorithms
    /\ individuals = <<>>
    /\ parents = <<>>
    /\ children = <<>>
    /\ call = NoCall
    /\ roulette = NoRoulette
    /\ pc = "select"

\* population.push(individual) with an individual the caller constructed
PushSelect ==
    /\ pc = "select"
    /\ Len(individuals) < SelPop
    /\ \E individual \in SelectIndividuals \cup {Undefined} :
         IF pushAccepts(individual)
         THEN /\ individuals' = Append(individuals, individual)
              /\ call' = Call("push", "", "", 0, 0, Len(individuals), FALSE)
         ELSE /\ individuals' = individuals
              /\ call' = Call("push", "", "", 0, 0, Len(individuals), TRUE)
    /\ UNCHANGED <<algorithm, parents, children, roulette, pc>>

GetParentsSelect == GetParentsUpTo(SelN)

NextSelect ==
    \/ PushSelect
    \/ GetParentsSelect

SpecSelect == InitSelect /\ [][NextSelect]_vars

\* ------------------------------------- the roulette draw loop, draw by draw
\* getParents('roulette', n, {rouletteMethod: sub}) for the methods that end in the draw
\* loop: the call runs up to the loop, or returns from the switch
BeginRoulette ==
    /\ pc = "select"
    /\ \E sub \in RouletteMethodNames \ {"univerzal"}, n \in 0 .. SelN :
         LET method == RouletteMethodOf([rouletteMethod |-> sub, shuffleOrder |-> FALSE])
             start == RouletteStart(individuals, method, n)
         IN  /\ parents' = start.parents
             /\ roulette' = IF start.returned THEN NoRoulette
                            ELSE [method |-> method, n |-> n,
                                  fitnessValues |-> start.fitnessValues,
                                  rouletteSize |-> start.rouletteSize,
                                  i |-> start.i, j |-> 0, roulette_position |-> 0]
             /\ pc' = IF start.returned THEN "vary" ELSE "draw"
             /\ individuals' = individualsAfterGetParents(individuals, "roulette")
             /\ call' = Call("getParents", "roulette", sub, n, 0, Len(individuals), FALSE)
    /\ children' = <<>>
    /\ UNCHANGED algorithm

\* one iteration of for(i; i<n; i++)
Draw ==
    /\ pc = "draw"
    /\ roulette.i < roulette.n
    /\ \E d \in Draws :
         LET step == DrawStep(individuals, roulette.fitnessValues, roulette.rouletteSize,
                              parents, roulette.i, d, roulette.method \in WithoutMethods)
         IN  /\ parents' = step.parents
             /\ roulette' = [roulette EXCEPT !.fitnessValues = step.fitnessValues,
                                             !.rouletteSize = step.rouletteSize,
                                             !.i = step.i,
                                             !.j = step.j,
                                             !.roulette_position = step.roulette_position]
    /\ UNCHANGED <<algorithm, individuals, children, call, pc>>

\* the loop condition i < n fails: return parents
ReturnParents ==
    /\ pc = "draw"
    /\ roulette.i >= roulette.n
    /\ roulette' = NoRoulette
    /\ pc' = "vary"
    /\ UNCHANGED <<algorithm, individuals, parents, children, call>>

NextRoulette ==
    \/ PushSelect
    \/ BeginRoulette
    \/ Draw
    \/ ReturnParents

SpecRoulette == InitSelect /\ [][NextRoulette]_vars

\* ----------------------------------------------- replacement on its own
SeqsUpTo(S, n) == UNION { [1 .. k -> S] : k \in 0 .. n }

\* the caller is about to call replacement: a population of generated individuals,
\* parents selected from it (any number of them, with repetitions, as
\* getParents('random', n) returns them) and children that are generated individuals
InitReplace ==
    /\ algorithm \in Algorithms
    /\ individuals \in SeqsUpTo(RandomIndividuals(algorithm), MaxPop)
    /\ parents \in SeqsUpTo(Range(individuals), RepParents)
    /\ children \in SeqsUpTo(RandomIndividuals(algorithm), RepChildren)
    /\ call = NoCall
    /\ roulette = NoRoulette
    /\ pc = "replace"

NextReplace == Replacement

SpecReplace == InitReplace /\ [][NextReplace]_vars

\* ------------------------------------------------- variation on its own
\* new EA([], [0, MaxIndividualLength + 1], 'INT', fitnessFunction,
\*        {variableIndividualLength: true}): an interval with whole numbers strictly
\* between its bounds
VariableAlgorithms ==
    { [variables |-> <<>>, interval |-> <<0, MaxIndividualLength + 1>>,
       number_coding |-> "INT", variable_individual_length |-> TRUE] }

\* variable-length individuals the caller constructs: every length up to
\* MaxIndividualLength + 1, the value at key k being k + 1 or 0, all within the interval
VariableIndividuals ==
    UNION { { EAIndividual([k \in 1 .. len |-> IF k \in zero THEN 0 ELSE k * One]) :
                zero \in SUBSET (1 .. len) } :
            len \in 0 .. (MaxIndividualLength + 1) }

InitVary ==
    /\ algorithm \in VariableAlgorithms
    /\ individuals = <<>>
    /\ parents = <<>>
    /\ children = <<>>
    /\ call = NoCall
    /\ roulette = NoRoulette
    /\ pc = "select"

\* population.push(individual) of one variable-length individual
PushVary ==
    /\ pc = "select"
    /\ individuals = <<>>
    /\ \E individual \in VariableIndividuals \cup {Undefined} :
         IF pushAccepts(individual)
         THEN /\ individuals' = Append(individuals, individual)
              /\ call' = Call("push", "", "", 0, 0, Len(individuals), FALSE)
         ELSE /\ individuals' = individuals
              /\ call' = Call("push", "", "", 0, 0, Len(individuals), TRUE)
    /\ UNCHANGED <<algorithm, parents, children, roulette, pc>>

GetParentsVary == GetParentsUpTo(Len(individuals))

NextVary ==
    \/ PushVary
    \/ GetParentsVary
    \/ ApplyGeneticOperators

SpecVary == InitVary /\ [][NextVary]_vars

\* ================================================================ claims
Occurrences(s, x) == Cardinality({ i \in 1 .. Len(s) : s[i] = x })

NonIncreasing(s) == \A i \in 1 .. Len(s) : \A j \in i .. Len(s) : s[i].fitness >= s[j].fitness

AllIndividuals(s) == \A i \in 1 .. Len(s) : IsIndividual(s[i])

\* C1: every Individual of population.individuals and every child returned by
\* applyGeneticOperators carries the fitness the fitness function gives for its own
\* variables, and the fitness function was evaluated exactly once for it.
FitnessIsCached(x) == x.fitness = fitnessFunction(x.variables) /\ x.evals = 1

C1_FitnessCached ==
    /\ \A i \in 1 .. Len(individuals) : FitnessIsCached(individuals[i])
    /\ \A i \in 1 .. Len(children) : FitnessIsCached(children[i])

C1_Witness ==
    /\ pc = "replace"
    /\ children # <<>>
    /\ children[1].fitness > 0
    /\ children[1] # parents[1]
    /\ \E i \in 1 .. Len(individuals) : individuals[i].fitness > 0

\* C2: getParents("random", n) and getParents("roulette", n, options) return exactly n
\* elements, or none when the population's total non-negative fitness is 0.
TotalNonNegativeFitness == SeqSum(ClampedFitness(individuals))

C2_LengthIsN ==
    (call.op = "getParents" /\ call.method \in {"random", "roulette"})
        => \/ Len(parents) = call.n
           \/ (Len(parents) = 0 /\ TotalNonNegativeFitness = 0)

\* C3: every element getParents("random" | "roulette") returns is an Individual that is
\* a member of population.individuals, for every draw including a draw of exactly 0.
C3_ParentsAreMembers ==
    (/\ call.op = "getParents"
     /\ call.method \in {"random", "roulette"}
     /\ TotalNonNegativeFitness > 0)
        => \A i \in 1 .. Len(parents) :
             IsIndividual(parents[i]) /\ parents[i] \in Range(individuals)

\* C4: in the generation loop (push, getParents, applyGeneticOperators on the parents
\* returned, replacement with those parents and children) every element of
\* population.individuals is an Individual produced under the population's
\* configuration: an EAIndividual with one value per configured variable, every value
\* within the interval, and its fitness computed from those values.
ValidIndividual(x) ==
    /\ IsIndividual(x)
    /\ Len(x.variables) = Len(algorithm.variables)
    /\ \A k \in 1 .. Len(x.variables) :
         /\ x.variables[k] >= algorithm.interval[1] * One
         /\ x.variables[k] <= algorithm.interval[2] * One
    /\ x.fitness = fitnessFunction(x.variables)

C5_BestParents ==
    (call.op = "getParents" /\ call.method = "best")
        => /\ Len(parents) = Min(call.n, Len(individuals))
           /\ NonIncreasing(parents)
           /\ \E idx \in [1 .. Len(parents) -> 1 .. Len(individuals)] :
                /\ \A k \in 1 .. Len(parents) : parents[k] = individuals[idx[k]]
                /\ \A k \in 1 .. Len(parents) : \A l \in (k + 1) .. Len(parents) :
                     \/ individuals[idx[k]].fitness > individuals[idx[l]].fitness
                     \/ /\ individuals[idx[k]].fitness = individuals[idx[l]].fitness
                        /\ idx[k] < idx[l]
                /\ \A j \in 1 .. Len(individuals) :
                     (\A k \in 1 .. Len(parents) : idx[k] # j)
                        => \A k \in 1 .. Len(parents) :
                             \/ individuals[j].fitness < individuals[idx[k]].fitness
                             \/ /\ individuals[j].fitness = individuals[idx[k]].fitness
                                /\ j > idx[k]

C5_Witness ==
    /\ call.op = "getParents"
    /\ call.method = "best"
    /\ call.n = 2
    /\ Len(individuals) = 3
    /\ Len(parents) = 2
    /\ parents[1].fitness = parents[2].fitness
    /\ parents[1] # parents[2]
    /\ individuals[1].fitness < parents[1].fitness

\* C6: with rouletteMethod "universal" (the source spells the method "univerzal") on a
\* population of k distinct individuals of equal positive fitness, every individual is
\* selected floor(n/k) or ceil(n/k) times, whatever the start offset.
EqualPositiveFitness ==
    /\ Len(individuals) >= 1
    /\ \A i \in 1 .. Len(individuals) :
         /\ individuals[i].fitness > 0
         /\ individuals[i].fitness = individuals[1].fitness
         /\ \A j \in 1 .. Len(individuals) : individuals[i] = individuals[j] => i = j

C6_UniversalSampling ==
    (/\ call.op = "getParents"
     /\ call.method = "roulette"
     /\ call.sub \in {"universal", "univerzal"}
     /\ EqualPositiveFitness)
        => \A i \in 1 .. Len(individuals) :
             LET k == Len(individuals)
                 c == Occurrences(parents, individuals[i])
             IN  c = call.n \div k \/ c = (call.n + k - 1) \div k

\* C7 as claimed: after replacement(parents, children, "plus_strategy", options),
\* population.individuals has exactly newGenerationSize elements (the option, or the
\* population size before the call when it is omitted), each of them comes from
\* parents or children, and they are in non-increasing fitness order.
NewGenerationSize(c) == IF c.n = 0 THEN c.len ELSE c.n

IsPlusStrategyStep == call'.op = "replacement" /\ call'.method = "plus_strategy"

C7_PlusStrategyExactSize ==
    [][IsPlusStrategyStep
         => /\ Len(individuals') = NewGenerationSize(call')
            /\ Range(individuals') \subseteq Range(parents) \cup Range(children)
            /\ NonIncreasing(individuals')]_vars

\* C7 as amended: the size is min(newGenerationSize, len(parents) + len(children)),
\* where an option of 0 counts as omitted; membership and order as claimed, and no
\* parent or child left out is fitter than one that was kept.
C7_PlusStrategy ==
    [][IsPlusStrategyStep
         => /\ Len(individuals') = Min(NewGenerationSize(call'), Len(parents) + Len(children))
            /\ Range(individuals') \subseteq Range(parents) \cup Range(children)
            /\ \A x \in Range(parents) \cup Range(children) :
                 Occurrences(individuals', x) <= Occurrences(parents \o children, x)
            /\ NonIncreasing(individuals')
            /\ \A x \in Range(parents) \cup Range(children) :
                 Occurrences(individuals', x) < Occurrences(parents \o children, x)
                    => \A i \in 1 .. Len(individuals') : individuals'[i].fitness >= x.fitness]_vars

C7_Witness ==
    /\ call.op = "replacement"
    /\ call.method = "plus_strategy"
    /\ call.n = 0
    /\ Len(individuals) = 2
    /\ individuals[1].fitness > individuals[2].fitness

\* C8: after replacement with method "generational", with the method omitted or with an
\* unrecognised method, population.individuals is exactly the children array, so no
\* parent that is not also a child remains.
C8_Generational ==
    [][(call'.op = "replacement" /\ call'.method \in {"generational", "", "elitism"})
         => /\ individuals' = children
            /\ \A x \in Range(individuals') : x \in Range(parents) => x \in Range(children)]_vars

C8_Witness ==
    /\ call.op = "replacement"
    /\ call.method = "elitism"
    /\ call.len = 2
    /\ Len(individuals) = 1

\* C9 as claimed: applyGeneticOperators with an empty parents array fails (throws) and
\* leaves the population unchanged; with a non-empty parents array it returns exactly
\* len(parents) children.
IsVariationStep == call'.op = "applyGeneticOperators"

DifferingKeys(child, parent) ==
    Cardinality({ k \in 1 .. Len(parent.variables) :
                    child.variables[k] # parent.variables[k] })

C10_AtMostMMutated ==
    (/\ call.op = "applyGeneticOperators"
     /\ call.method \in {"uniform_mutation", "gaussian_mutation"}
     /\ ~call.threw)
        => \A i \in 1 .. Len(children) :
             DifferingKeys(children[i], parents[i]) <= MutatedValues(call.n)

\* C11: under extremal_mutation every variable of every child equals the parent's value
\* at the same key or one of the two interval bounds; a mutated value is never a value
\* strictly inside the interval.
IsIntervalBound(value) ==
    value = algorithm.interval[1] * One \/ value = algorithm.interval[2] * One

C11_ExtremalValues ==
    (/\ call.op = "applyGeneticOperators"
     /\ call.method = "extremal_mutation"
     /\ ~call.threw)
        => \A i \in 1 .. Len(children) : \A k \in 1 .. Len(children[i].variables) :
             \/ children[i].variables[k] = parents[i].variables[k]
             \/ IsIntervalBound(children[i].variables[k])

\* C12: initializePopulation(method, n) returns a population of exactly n individuals
\* for n >= 0 and an empty one for n < 0, without raising, and every variable value of
\* every generated individual lies within [interval.min, interval.max].
WithinInterval(x) ==
    \A k \in 1 .. Len(x.variables) :
        /\ x.variables[k] >= algorithm.interval[1] * One
        /\ x.variables[k] <= algorithm.interval[2] * One

C12_InitializePopulation ==
    call.op = "initializePopulation"
        => /\ ~call.threw
           /\ Len(individuals) = Max(call.n, 0)
           /\ \A i \in 1 .. Len(individuals) :
                IsIndividual(individuals[i]) /\ WithinInterval(individuals[i])

C12_Witness ==
    /\ call.op = "initializePopulation"
    /\ call.n = 2
    /\ Len(individuals) = 2
    /\ algorithm.interval = <<-1, 1>>
    /\ algorithm.number_coding = "REAL"
    /\ ~algorithm.variable_individual_length
    /\ individuals[1].variables[1] < 0
    /\ individuals[1].variables[1] > 0 - One
    /\ individuals[2].variables[2] > 0

WholePart(x) == IF x.fitness <= 0 THEN 0 ELSE x.fitness \div One

IsRemainderCall ==
    /\ call.op = "getParents"
    /\ call.method = "roulette"
    /\ call.sub \in {"remainder_with_replacement", "remainder_without_replacement"}

RECURSIVE WholePartSum(_)
WholePartSum(s) == IF s = <<>> THEN 0 ELSE WholePart(Head(s)) + WholePartSum(Tail(s))

C14_RemainderCopies ==
    IsRemainderCall
        => \A k \in 1 .. Len(individuals) :
             /\ Occurrences(parents, individuals[k]) >= WholePart(individuals[k])
             /\ call.n <= WholePartSum(individuals)
                  => Occurrences(parents, individuals[k])
                       = Occurrences(individuals, individuals[k]) * WholePart(individuals[k])

C14_Witness ==
    /\ IsRemainderCall
    /\ call.n = 0
    /\ Len(individuals) = 2
    /\ individuals[1].fitness = 2 * One
    /\ individuals[2].fitness > 0
    /\ individuals[2].fitness < One
    /\ parents = <<individuals[1], individuals[1]>>

\* C15: in roulette without_replacement and remainder_without_replacement, the weight
\* that a draw decrements by 1 (floored at 0) is the weight of the individual selected
\* in that draw, no other weight changes, and the weight list keeps exactly one entry
\* per individual.  (roulette'.j is the place in the population, counted from 1, of the
\* individual individuals[j-1] the draw selected; a draw with j = 0 selected nobody and
\* is left out.)
IsDrawStep == pc = "draw" /\ pc' = "draw" /\ roulette'.i = roulette.i + 1

C15_SelectedWeightDecremented ==
    [][(/\ IsDrawStep
        /\ roulette.method \in {"without_replacement", "remainder_without_replacement"}
        /\ roulette'.j >= 1)
          => /\ Len(roulette'.fitnessValues) = Len(individuals)
             /\ \A k \in 1 .. Len(individuals) :
                  roulette'.fitnessValues[k] =
                      IF k = roulette'.j
                      THEN Max(0, roulette.fitnessValues[k] - One)
                      ELSE roulette.fitnessValues[k]]_vars

\* C16: in roulette with_replacement, for every draw position p in [0, rouletteSize)
\* the selected individual is the one at the first index whose cumulative weight (the
\* sum of max(0, fitness) up to and including it) exceeds p; so an individual of
\* fitness <= 0 is never selected and p = 0 selects the first individual of positive
\* weight.  (The position is the fraction roulette_position / Res.)
CumulativeWeight(k) == SeqSum(SubSeq(ClampedFitness(individuals), 1, k))

FirstExceeding(position) ==
    CHOOSE k \in 1 .. Len(individuals) :
        /\ CumulativeWeight(k) * Res > position
        /\ \A l \in 1 .. (k - 1) : CumulativeWeight(l) * Res <= position

C16_CumulativeWalk ==
    [][(IsDrawStep /\ roulette.method = "with_replacement")
          => /\ parents'[roulette'.i] = individuals[FirstExceeding(roulette'.roulette_position)]
             /\ parents'[roulette'.i].fitness > 0]_vars

\* C19: throughout a roulette selection call, at the start of every draw rouletteSize
\* is the sum of the current effective weights and is positive, and the cumulative walk
\* of a draw never runs past the last individual (j counts the weights the walk added).
AllNumbers(fv) == \A k \in 1 .. Len(fv) : IsNumber(fv[k])

C19_RouletteSizeIsWeightSum ==
    pc = "draw"
        => /\ roulette.j <= Len(individuals)
           /\ roulette.i < roulette.n
                => /\ AllNumbers(roulette.fitnessValues)
                   /\ roulette.rouletteSize = SeqSum(roulette.fitnessValues)
                   /\ roulette.rouletteSize > 0

\* C17: under swap_mutation on a variable-length parent, for every block size and every
\* pair of positions drawn, the child has as many variables as the parent and its
\* values are a permutation of the parent's values: no value is lost or duplicated.
IsPermutation(s, t) ==
    /\ Len(s) = Len(t)
    /\ \A v \in Range(s) \cup Range(t) : Occurrences(s, v) = Occurrences(t, v)

C17_SwapIsPermutation ==
    (/\ call.op = "applyGeneticOperators"
     /\ call.method = "swap_mutation"
     /\ ~call.threw)
        => \A i \in 1 .. Len(children) :
             IsPermutation(children[i].variables, parents[i].variables)

\* C18: after replacement(parents, children, "separate_competition", {generationGap: g})
\* on a population of size s, population.individuals is the (s - g) fittest parents in
\* non-increasing fitness order followed by the g fittest children in non-increasing
\* fitness order, for every g >= 0; for g > s no parent is kept, and with g omitted it
\* is the top s parents and no children.
TopByFitness(s, count) == SubSeq(sortByFitness(s), 1, Min(Max(count, 0), Len(s)))

C18_SeparateCompetition ==
    [][(call'.op = "replacement" /\ call'.method = "separate_competition")
          => individuals' = TopByFitness(parents, Len(individuals) - call'.gap)
                            \o TopByFitness(children, call'.gap)]_vars

\* C20: in the loop getParents("best", n >= 1) -> applyGeneticOperators ->
\* replacement(parents, children, "plus_strategy") on a non-empty population, over any
\* number of generations, the maximum fitness in population.individuals never decreases
\* from one generation to the next and the population never becomes empty.  (The
\* replacement steps concerned are those whose parents are the Len(parents) >= 1 best
\* of the population and whose newGenerationSize is omitted.)
MaxFitness(s) == CHOOSE m \in { s[i].fitness : i \in 1 .. Len(s) } :
                    \A i \in 1 .. Len(s) : s[i].fitness <= m

IsPlusStrategyGeneration ==
    /\ call'.op = "replacement"
    /\ call'.method = "plus_strategy"
    /\ call'.n = 0
    /\ individuals # <<>>
    /\ parents # <<>>
    /\ parents = getBestParents(individuals, Len(parents))

C20_BestNeverLost ==
    [][IsPlusStrategyGeneration
          => /\ individuals' # <<>>
             /\ MaxFitness(individuals') >= MaxFitness(individuals)]_vars

C20_Witness ==
    /\ call.op = "replacement"
    /\ call.method = "plus_strategy"
    /\ call.n = 0
    /\ call.len = 2
    /\ Len(individuals) = 2
    /\ individuals[1].fitness = 2 * One
    /\ individuals[2].fitness = 0

====
